---- MODULE Spec2Model ----
(***************************************************************************)
(* A model of the gRPC file service's server: the two channel semaphores   *)
(* and the interceptors that guard every call (server/handlers.go 26-90),  *)
(* sanitizeFilename (92-96) and the Upload, Download and ListFiles         *)
(* handlers (98-200) over a flat storage directory.                        *)
(*                                                                         *)
(* Strings are sequences of one-character strings.  A file is a sequence   *)
(* of bytes; byte 0 is what the filesystem reads back from a hole left by  *)
(* a write past the end of a file.                                         *)
(***************************************************************************)
EXTENDS Integers, Sequences, FiniteSets, TLC

(* ------------------------------ bounds -------------------------------- *)

\* Concurrent RPC calls the model follows.
NumCalls == 3

\* Capacity of uploadDownloadSem in the model (the server makes it 10).
UploadDownloadCap == 2

\* Capacity of listSem in the model (the server makes it 100).
ListCap == 1

\* Length of the Download read buffer in the model (the server uses 64 KiB).
BufSize == 1

\* Chunks the Upload streams of one run carry in all.
MaxChunks == 2

\* The same, in the runs that follow the bytes of the files.
MaxDataChunks == 3

\* I/O and stream errors the environment raises in one run.
MaxFaults == 1

\* Releases by callers that hold no token, in one run of the semaphores alone.
MaxStrayReleases == 2

\* Calls whose context is done before they end, in one run.
MaxCancels == 1

\* Longest client-supplied filename the sanitizer is applied to.
MaxNameLen == 4

(* --------------------------- strings and paths ------------------------ *)

\* os.PathSeparator on the platforms the server is built for.
PathSeparator ==
    "/"

Chars ==
    {"/", ".", "a"}

RECURSIVE StringsUpTo(_)
StringsUpTo(n) ==
    IF n = 0 THEN {<<>>}
    ELSE LET shorter == StringsUpTo(n - 1)
         IN  shorter \cup {Append(s, ch) : s \in {t \in shorter : Len(t) = n - 1}, ch \in Chars}

AllNames ==
    StringsUpTo(MaxNameLen)

Max(a, b) ==
    IF a >= b THEN a ELSE b

Min(a, b) ==
    IF a <= b THEN a ELSE b

\* filepath.Base: strip trailing separators.
RECURSIVE StripTrailing(_)
StripTrailing(path) ==
    IF Len(path) > 0 /\ path[Len(path)] = PathSeparator
    THEN StripTrailing(SubSeq(path, 1, Len(path) - 1))
    ELSE path

\* filepath.Base: index of the last separator, 0 when there is none.
LastSeparator(path) ==
    LET idx == {i \in 1..Len(path) : path[i] = PathSeparator}
    IN  IF idx = {} THEN 0 ELSE CHOOSE i \in idx : \A j \in idx : j <= i

\* filepath.Base on a slash-separated platform.
Base(path) ==
    IF path = <<>> THEN <<".">>
    ELSE LET stripped == StripTrailing(path)
             last == SubSeq(stripped, LastSeparator(stripped) + 1, Len(stripped))
         IN  IF last = <<>> THEN <<PathSeparator>> ELSE last

\* strings.ReplaceAll for a one-character pattern and replacement.
ReplaceAll(s, old, new) ==
    [i \in 1..Len(s) |-> IF s[i] = old THEN new ELSE s[i]]

sanitizeFilename(name) ==
    ReplaceAll(Base(name), PathSeparator, "_")

\* A path split into its elements at the separators (empty elements kept).
RECURSIVE Split(_)
Split(path) ==
    LET idx == {i \in 1..Len(path) : path[i] = PathSeparator}
    IN  IF idx = {} THEN <<path>>
        ELSE LET i == CHOOSE k \in idx : \A j \in idx : k <= j
             IN  <<SubSeq(path, 1, i - 1)>> \o Split(SubSeq(path, i + 1, Len(path)))

\* filepath.Clean of a relative path, as the list of elements it resolves to
\* below the working directory; <<"..">> elements that climb above it stay.
RECURSIVE CleanElems(_, _)
CleanElems(done, rest) ==
    IF rest = <<>> THEN done
    ELSE LET e == Head(rest)
             t == Tail(rest)
         IN  IF e = <<>> \/ e = <<".">> THEN CleanElems(done, t)
             ELSE IF e = <<".", ".">>
                  THEN IF done # <<>> /\ done[Len(done)] # <<".", ".">>
                       THEN CleanElems(SubSeq(done, 1, Len(done) - 1), t)
                       ELSE CleanElems(Append(done, e), t)
                  ELSE CleanElems(Append(done, e), t)

\* The server's storage directory, "uploads", relative to the working directory.
storageDir ==
    <<"u">>

\* filepath.Join(s.storageDir, filename): the elements of the cleaned path.
Join(dir, name) ==
    IF name = <<>> THEN CleanElems(<<>>, Split(dir))
    ELSE CleanElems(<<>>, Split(dir \o <<PathSeparator>> \o name))

\* The elements of the storage directory itself.
RootPath ==
    CleanElems(<<>>, Split(storageDir))

\* A cleaned path names an entry directly inside the storage directory.
IsEntryOfRoot(p) ==
    /\ Len(p) = Len(RootPath) + 1
    /\ SubSeq(p, 1, Len(RootPath)) = RootPath
    /\ p[Len(p)] # <<".", ".">>

(* ------------------------------- state -------------------------------- *)

Calls ==
    1..NumCalls

\* The service's three methods (handlers.go 98, 143, 174).
Methods ==
    {"Upload", "Download", "ListFiles"}

\* The two handler sources of the repository: server/handlers.go and the
\* second copy of the handlers (unnamed/part_000).
Impls ==
    {"server", "unnamed"}

\* Filenames the clients send.
RawNames ==
    {<<>>, <<"a">>, <<".", ".", "/", "a">>}

\* Payloads one upload chunk may carry.
Payloads ==
    {<<>>, <<1>>}

\* Filenames and payloads in the runs that follow the bytes of the files.
DataNames ==
    {<<"a">>, <<"/", "a">>}

DataPayloads ==
    {<<>>, <<1>>, <<2, 1>>}

\* Filenames in the runs that follow which files the calls touch: empty,
\* separators only, a dot name and a plain name.
NameRawNames ==
    {<<>>, <<"/">>, <<".", ".">>, <<"a">>}

\* Names of the regular files the storage directory can come to hold.
FileNames ==
    {n \in {sanitizeFilename(r) : r \in RawNames \cup DataNames \cup NameRawNames} :
        IsEntryOfRoot(Join(storageDir, n))}

\* A name the storage directory does not hold (no byte is negative).
NoFile ==
    <<-1>>

\* A nil *os.File.
NoHandle ==
    [open |-> FALSE, path |-> <<>>, off |-> 0]

\* No Upload of the file has ended with success (no byte is negative).
NoVersion ==
    <<-1>>

\* A buffered channel of struct{}: the tokens in its buffer and the senders
\* blocked on it, in the order they blocked.
EmptyChan ==
    [n |-> 0, sendq |-> <<>>]

VARIABLES
    impl,               \* which copy of the handlers the server runs
    uploadDownloadSem,  \* the channel s.uploadDownloadSem
    listSem,            \* the channel s.listSem
    method,             \* per call: info.FullMethod, "none" before the call arrives
    pc,                 \* per call: where the call is
    ctxDone,            \* per call: the call's context is done (cancel, deadline, disconnect)
    result,             \* per call: what the call returned
    filename,           \* per call: the handler's local filename
    f,                  \* per call: the handler's open file, NoHandle when nil
    emitted,            \* per call: the chunks Download sent on the stream
    listed,             \* per call: the entries ListFiles returned
    files,              \* the storage directory: name -> bytes, or NoFile
    slot,               \* history: the gate whose token the call put in and has not taken out
    ran,                \* history: the call's handler was invoked
    releases,           \* history: deferred releases run for the call
    waitedFull,         \* history: the call blocked in acquire (kept until its handler's first step)
    sent,               \* history: payload bytes the Upload received since it opened its file
    prevOk,             \* history: per file, the bytes of the last Upload of it that ended with success
    quiet,              \* history: per file, no Upload has had it open since that success
    dlWant,             \* history: per Download, prevOk of its file if quiet when opened and since
    overlapped,         \* history: per call, an Upload had the call's file open while the call had
    sanPc,              \* sanitizer run: "idle", "input", "sanitized" or "joined"
    rawName,            \* sanitizer run: the client-supplied name
    safeName,           \* sanitizer run: sanitizeFilename(rawName)
    openPath,           \* sanitizer run: the path Upload and Download open
    strayReleases,      \* semaphore run: releases made by callers holding no token
    chunks,             \* chunks received so far by all Upload calls
    faults              \* I/O and stream errors raised so far

semVars == <<uploadDownloadSem, listSem>>
callVars == <<method, pc, ctxDone, result>>
handlerVars == <<filename, f, emitted, listed>>
envVars == <<chunks, faults>>
slotVars == <<slot, ran, releases, waitedFull>>
dataVars == <<sent, prevOk, quiet, dlWant, overlapped>>
sanVars == <<sanPc, rawName, safeName, openPath>>

vars == <<impl, semVars, callVars, handlerVars, files, slotVars, dataVars, sanVars,
          strayReleases, envVars>>

InitWith(impls) ==
    /\ impl \in impls
    /\ uploadDownloadSem = EmptyChan
    /\ listSem = EmptyChan
    /\ method = [c \in Calls |-> "none"]
    /\ pc = [c \in Calls |-> "idle"]
    /\ ctxDone = [c \in Calls |-> FALSE]
    /\ result = [c \in Calls |-> "none"]
    /\ filename = [c \in Calls |-> <<>>]
    /\ f = [c \in Calls |-> NoHandle]
    /\ emitted = [c \in Calls |-> <<>>]
    /\ listed = [c \in Calls |-> {}]
    /\ files = [n \in FileNames |-> NoFile]
    /\ slot = [c \in Calls |-> "none"]
    /\ ran = [c \in Calls |-> FALSE]
    /\ releases = [c \in Calls |-> 0]
    /\ waitedFull = [c \in Calls |-> FALSE]
    /\ sent = [c \in Calls |-> <<>>]
    /\ prevOk = [n \in FileNames |-> NoVersion]
    /\ quiet = [n \in FileNames |-> FALSE]
    /\ dlWant = [c \in Calls |-> NoVersion]
    /\ overlapped = [c \in Calls |-> FALSE]
    /\ sanPc = "idle"
    /\ rawName = <<>>
    /\ safeName = <<>>
    /\ openPath = <<>>
    /\ strayReleases = 0
    /\ chunks = 0
    /\ faults = 0

(* ------------------- semaphores and interceptors ---------------------- *)

\* case ch <- struct{}{} can proceed at once: the buffer has room.
SendReady(ch, cap) ==
    ch.n < cap

\* The send proceeds: one more token in the buffer.
Send(ch) ==
    [ch EXCEPT !.n = @ + 1]

\* The sender blocks on the full channel.
Block(ch, c) ==
    [ch EXCEPT !.sendq = Append(@, c)]

\* A blocked sender whose select takes another case leaves the channel.
Leave(ch, c) ==
    [ch EXCEPT !.sendq = SelectSeq(@, LAMBDA d : d # c)]

\* select { case <-ch: default: }: a token is received when there is one, and
\* the send of the longest-blocked sender then completes into the freed
\* place; with no token the default case runs.
TryRecv(ch) ==
    IF ch.n = 0 THEN ch
    ELSE IF ch.sendq # <<>> THEN [ch EXCEPT !.sendq = Tail(@)]
    ELSE [ch EXCEPT !.n = @ - 1]

\* The blocked senders whose send completed when the channel went from
\* before to after: those that have left its queue.
Woken(before, after) ==
    {before.sendq[i] : i \in 1..Len(before.sendq)}
        \ {after.sendq[i] : i \in 1..Len(after.sendq)}

\* Mutant: the send case is taken whatever the buffer holds.
acquireReadyAlways(ch) ==
    TRUE

\* acquireUploadDownload: the send case of the select is ready.
acquireUploadDownloadReady(ch) ==
    SendReady(ch, UploadDownloadCap)

\* acquireList: the send case of the select is ready.
acquireListReady(ch) ==
    SendReady(ch, ListCap)

\* Mutant: the release receives nothing.
releaseWithoutReceive(ch) ==
    ch

\* releaseUploadDownload: the non-blocking receive on s.uploadDownloadSem.
releaseUploadDownload(ch) ==
    TryRecv(ch)

\* releaseList: the non-blocking receive on s.listSem.
releaseList(ch) ==
    TryRecv(ch)

\* Upload and Download are streaming methods, ListFiles is unary.
IsStream(m) ==
    m \in {"Upload", "Download"}

\* streamLimitInterceptor: the semaphore chosen from info.FullMethod.
streamGate(m) ==
    IF m = "Upload" \/ m = "Download" THEN "transfer"
    ELSE IF m = "ListFiles" THEN "list"
    ELSE "none"

\* Mutant: the unary interceptor sends every method to the transfer semaphore.
unaryGateTransferOnly(m) ==
    "transfer"

\* unaryLimitInterceptor: the semaphore chosen from info.FullMethod.
unaryGate(m) ==
    IF m = "ListFiles" THEN "list" ELSE "transfer"

\* The interceptor gRPC runs for the method, and the gate it picks.
GateOf(m) ==
    IF IsStream(m) THEN streamGate(m) ELSE unaryGate(m)

\* Calls are numbered in the order they arrive.
Arrives(c) ==
    /\ pc[c] = "idle"
    /\ \A d \in Calls : d < c => pc[d] # "idle"

CancelsLeft ==
    Cardinality({d \in Calls : ctxDone[d]}) < MaxCancels

\* A call of method m arrives, its interceptor runs acquire and the send case
\* is ready: the token is sent, the release deferred and the handler invoked.
Admit(c, m) ==
    /\ Arrives(c)
    /\ \/ /\ GateOf(m) = "transfer"
          /\ acquireUploadDownloadReady(uploadDownloadSem)
          /\ uploadDownloadSem' = Send(uploadDownloadSem)
          /\ listSem' = listSem
       \/ /\ GateOf(m) = "list"
          /\ acquireListReady(listSem)
          /\ listSem' = Send(listSem)
          /\ uploadDownloadSem' = uploadDownloadSem
    /\ method' = [method EXCEPT ![c] = m]
    /\ pc' = [pc EXCEPT ![c] = "handler"]
    /\ slot' = [slot EXCEPT ![c] = GateOf(m)]
    /\ ran' = [ran EXCEPT ![c] = TRUE]
    /\ UNCHANGED <<impl, ctxDone, result, handlerVars, files, releases, waitedFull,
                   dataVars, sanVars, strayReleases, envVars>>

\* A call of method m arrives and no case of acquire's select is ready: the
\* call blocks on the full semaphore.
Wait(c, m) ==
    /\ Arrives(c)
    /\ \/ /\ GateOf(m) = "transfer"
          /\ ~acquireUploadDownloadReady(uploadDownloadSem)
          /\ uploadDownloadSem' = Block(uploadDownloadSem, c)
          /\ listSem' = listSem
       \/ /\ GateOf(m) = "list"
          /\ ~acquireListReady(listSem)
          /\ listSem' = Block(listSem, c)
          /\ uploadDownloadSem' = uploadDownloadSem
    /\ method' = [method EXCEPT ![c] = m]
    /\ pc' = [pc EXCEPT ![c] = "blocked"]
    /\ waitedFull' = [waitedFull EXCEPT ![c] = TRUE]
    /\ UNCHANGED <<impl, ctxDone, result, handlerVars, files, slot, ran, releases,
                   dataVars, sanVars, strayReleases, envVars>>

\* A call of method m arrives with its context already done and acquire's
\* select takes the ctx.Done() case (it may, whether or not the send is ready).
ArriveDone(c, m) ==
    /\ Arrives(c)
    /\ CancelsLeft
    /\ method' = [method EXCEPT ![c] = m]
    /\ ctxDone' = [ctxDone EXCEPT ![c] = TRUE]
    /\ pc' = [pc EXCEPT ![c] = "cancelled"]
    /\ UNCHANGED <<impl, semVars, result, handlerVars, files, slotVars,
                   dataVars, sanVars, strayReleases, envVars>>

\* Mutant: a done context aborts a running handler at once: its file is closed
\* and the call returns Canceled.
CancelPreempting(c) ==
    /\ pc[c] \in {"blocked", "handler", "loop", "ret"}
    /\ ~ctxDone[c]
    /\ CancelsLeft
    /\ ctxDone' = [ctxDone EXCEPT ![c] = TRUE]
    /\ IF pc[c] = "blocked"
       THEN /\ pc' = [pc EXCEPT ![c] = "cancelled"]
            /\ uploadDownloadSem' = Leave(uploadDownloadSem, c)
            /\ listSem' = Leave(listSem, c)
            /\ UNCHANGED <<result, f>>
       ELSE /\ pc' = [pc EXCEPT ![c] = "ret"]
            /\ result' = [result EXCEPT ![c] = "Canceled"]
            /\ f' = [f EXCEPT ![c] = NoHandle]
            /\ UNCHANGED semVars
    /\ UNCHANGED <<impl, method, filename, emitted, listed, files, slotVars,
                   dataVars, sanVars, strayReleases, envVars>>

\* The call's context is done: the client cancelled, disconnected or timed
\* out.  A call blocked in acquire leaves the semaphore: its select has taken
\* the ctx.Done() case.
Cancel(c) ==
    /\ pc[c] \in {"blocked", "handler", "loop", "ret"}
    /\ ~ctxDone[c]
    /\ CancelsLeft
    /\ ctxDone' = [ctxDone EXCEPT ![c] = TRUE]
    /\ IF pc[c] = "blocked"
       THEN /\ pc' = [pc EXCEPT ![c] = "cancelled"]
            /\ uploadDownloadSem' = Leave(uploadDownloadSem, c)
            /\ listSem' = Leave(listSem, c)
       ELSE UNCHANGED <<pc, semVars>>
    /\ UNCHANGED <<impl, method, result, handlerVars, files, slotVars,
                   dataVars, sanVars, strayReleases, envVars>>

\* Mutant: the release is deferred before acquire's error is looked at, so it
\* runs on the cancelled path too.
AcquireCancelledReleasing(c) ==
    /\ pc[c] = "cancelled"
    /\ result' = [result EXCEPT ![c] = "Canceled"]
    /\ pc' = [pc EXCEPT ![c] = "done"]
    /\ uploadDownloadSem' =
          IF GateOf(method[c]) = "transfer" THEN TryRecv(uploadDownloadSem)
          ELSE uploadDownloadSem
    /\ listSem' = IF GateOf(method[c]) = "list" THEN TryRecv(listSem) ELSE listSem
    /\ UNCHANGED <<impl, method, ctxDone, handlerVars, files, slotVars,
                   dataVars, sanVars, strayReleases, envVars>>

\* acquire returns ctx.Err(): the interceptor returns it, nothing is deferred
\* and the handler is not invoked.
AcquireCancelled(c) ==
    /\ pc[c] = "cancelled"
    /\ result' = [result EXCEPT ![c] = "Canceled"]
    /\ pc' = [pc EXCEPT ![c] = "done"]
    /\ UNCHANGED <<impl, semVars, method, ctxDone, handlerVars, files, slotVars,
                   dataVars, sanVars, strayReleases, envVars>>

\* The handler has returned: the deferred release runs and the call ends; its
\* locals and its stream are gone.  A blocked call whose send the release
\* completes returns from acquire: its handler is invoked.
DeferredRelease(c) ==
    /\ pc[c] = "ret"
    /\ LET g == GateOf(method[c])
           transfer == IF g = "transfer" THEN releaseUploadDownload(uploadDownloadSem)
                       ELSE uploadDownloadSem
           list == IF g = "list" THEN releaseList(listSem) ELSE listSem
           woken == Woken(uploadDownloadSem, transfer) \cup Woken(listSem, list)
       IN  /\ uploadDownloadSem' = transfer
           /\ listSem' = list
           /\ pc' = [d \in Calls |->
                       IF d = c THEN "done" ELSE IF d \in woken THEN "handler" ELSE pc[d]]
           /\ slot' = [d \in Calls |->
                       IF d = c THEN "none" ELSE IF d \in woken THEN g ELSE slot[d]]
           /\ ran' = [d \in Calls |-> ran[d] \/ d \in woken]
    /\ releases' = [releases EXCEPT ![c] = @ + 1]
    /\ method' = [method EXCEPT ![c] = "none"]
    /\ result' = [result EXCEPT ![c] = "none"]
    /\ filename' = [filename EXCEPT ![c] = <<>>]
    /\ f' = [f EXCEPT ![c] = NoHandle]
    /\ emitted' = [emitted EXCEPT ![c] = <<>>]
    /\ listed' = [listed EXCEPT ![c] = {}]
    /\ sent' = [sent EXCEPT ![c] = <<>>]
    /\ dlWant' = [dlWant EXCEPT ![c] = NoVersion]
    /\ overlapped' = [overlapped EXCEPT ![c] = FALSE]
    /\ UNCHANGED <<impl, ctxDone, files, waitedFull, prevOk, quiet,
                   sanVars, strayReleases, envVars>>

(* ------------------------------ files --------------------------------- *)

\* The file a cleaned path names inside the storage directory.
PathName(p) ==
    p[Len(p)]

\* Mutant: opening a file for writing empties every stored file.
OpenTruncateAll(fs, n) ==
    [m \in DOMAIN fs |-> IF m = n \/ fs[m] # NoFile THEN <<>> ELSE NoFile]

\* Mutant: the file is opened without O_TRUNC.
OpenKeep(fs, n) ==
    IF fs[n] = NoFile THEN [fs EXCEPT ![n] = <<>>] ELSE fs

\* os.OpenFile(path, O_CREATE|O_WRONLY|O_TRUNC): the file exists and is empty.
OpenTruncate(fs, n) ==
    [fs EXCEPT ![n] = <<>>]

\* f.Write(data) at the handle's offset: bytes between the end of the file
\* and the offset read back as 0.
WriteAt(content, off, data) ==
    IF data = <<>> THEN content
    ELSE
    [i \in 1..Max(Len(content), off + Len(data)) |->
        IF i > off /\ i <= off + Len(data) THEN data[i - off]
        ELSE IF i <= Len(content) THEN content[i]
        ELSE 0]

\* Bytes left to read from the handle's offset.
Remaining(content, off) ==
    Max(0, Len(content) - off)

\* Mutant: every read starts at the beginning of the file.
ReadFromStart(content, off, n) ==
    SubSeq(content, 1, n)

\* buf[:n] after f.Read(buf) read n bytes at the handle's offset.
ReadAt(content, off, n) ==
    SubSeq(content, off + 1, off + n)

RECURSIVE Flatten(_)
Flatten(seqs) ==
    IF seqs = <<>> THEN <<>> ELSE Head(seqs) \o Flatten(Tail(seqs))

\* The handler returns r to its interceptor.
Return(c, r) ==
    /\ result' = [result EXCEPT ![c] = r]
    /\ pc' = [pc EXCEPT ![c] = "ret"]

\* The environment raises an I/O or stream error.
Fault ==
    /\ faults < MaxFaults
    /\ faults' = faults + 1

NoFault ==
    faults' = faults

(* ------------------------------ Upload -------------------------------- *)

\* The other Upload calls that have the file at path open.
Writers(c, path) ==
    {d \in Calls \ {c} : method[d] = "Upload" /\ f[d].open /\ f[d].path = path}

\* Upload starts: os.MkdirAll(s.storageDir) in server/handlers.go (the other
\* copy of the handler has no such call), then the receive loop.
UploadStart(c) ==
    /\ pc[c] = "handler"
    /\ method[c] = "Upload"
    /\ \/ /\ pc' = [pc EXCEPT ![c] = "loop"]
          /\ result' = result
          /\ NoFault
       \/ /\ impl = "server"
          /\ Fault
          /\ Return(c, "Err:mkdir")
    /\ waitedFull' = [waitedFull EXCEPT ![c] = FALSE]
    /\ UNCHANGED <<impl, semVars, method, ctxDone, handlerVars, files, slot, ran, releases,
                   dataVars, sanVars, strayReleases, chunks>>

\* Mutant: an end of stream before any file was opened is answered as a
\* failure.
UploadEOFRequiringFile(c) ==
    /\ pc[c] = "loop"
    /\ method[c] = "Upload"
    /\ f' = [f EXCEPT ![c] = NoHandle]
    /\ Return(c, IF f[c].open THEN "OkTrue" ELSE "OkFalse:name")
    /\ NoFault
    /\ IF f[c].open
       THEN /\ prevOk' = [prevOk EXCEPT ![PathName(f[c].path)] = sent[c]]
            /\ quiet' = [quiet EXCEPT ![PathName(f[c].path)] =
                            Writers(c, f[c].path) = {}]
       ELSE UNCHANGED <<prevOk, quiet>>
    /\ UNCHANGED <<impl, semVars, method, ctxDone, filename, emitted, listed,
                   files, slotVars, sent, dlWant, overlapped, sanVars, strayReleases,
                   chunks>>

\* stream.Recv() returns io.EOF: the file is closed and SendAndClose sends
\* the success response (which can fail once the stream's context is done).
UploadEOF(c) ==
    /\ pc[c] = "loop"
    /\ method[c] = "Upload"
    /\ f' = [f EXCEPT ![c] = NoHandle]
    /\ \/ /\ Return(c, "OkTrue")
          /\ NoFault
          /\ IF f[c].open
             THEN /\ prevOk' = [prevOk EXCEPT ![PathName(f[c].path)] = sent[c]]
                  /\ quiet' = [quiet EXCEPT ![PathName(f[c].path)] =
                                  Writers(c, f[c].path) = {}]
             ELSE UNCHANGED <<prevOk, quiet>>
       \/ /\ ctxDone[c]
          /\ Fault
          /\ Return(c, "Err:send")
          /\ UNCHANGED <<prevOk, quiet>>
    /\ UNCHANGED <<impl, semVars, method, ctxDone, filename, emitted, listed,
                   files, slotVars, sent, dlWant, overlapped, sanVars, strayReleases,
                   chunks>>

\* Mutant: on a receive error the handler also removes the file it was writing.
UploadRecvErrorRemoving(c) ==
    /\ pc[c] = "loop"
    /\ method[c] = "Upload"
    /\ Fault
    /\ f' = [f EXCEPT ![c] = NoHandle]
    /\ files' = IF f[c].open THEN [files EXCEPT ![PathName(f[c].path)] = NoFile]
                ELSE files
    /\ Return(c, "Err:recv")
    /\ UNCHANGED <<impl, semVars, method, ctxDone, filename, emitted, listed,
                   slotVars, dataVars, sanVars, strayReleases, chunks>>

\* stream.Recv() returns an error: the file is closed and the error returned.
UploadRecvError(c) ==
    /\ pc[c] = "loop"
    /\ method[c] = "Upload"
    /\ Fault
    /\ f' = [f EXCEPT ![c] = NoHandle]
    /\ Return(c, "Err:recv")
    /\ UNCHANGED <<impl, semVars, method, ctxDone, filename, emitted, listed,
                   files, slotVars, dataVars, sanVars, strayReleases, chunks>>

\* The chunk is the one the handler takes its filename from.
TakesFilename(c, fn) ==
    IF impl = "server" THEN filename[c] = <<>>
    ELSE filename[c] = <<>> /\ fn # <<>>

\* What Upload returns for a failure it reports itself: an error in
\* server/handlers.go, SendAndClose of {ok: false} in the other copy.
UploadFailure(what) ==
    IF impl = "server" THEN "Err:" \o what ELSE "OkFalse:" \o what

\* History for opening path in an Upload.
NoteOpen(c, path) ==
    /\ quiet' = [quiet EXCEPT ![PathName(path)] = FALSE]
    /\ prevOk' = prevOk
    /\ dlWant' = [d \in Calls |->
                     IF method[d] = "Download" /\ f[d].open /\ f[d].path = path
                     THEN NoVersion ELSE dlWant[d]]
    /\ overlapped' = [d \in Calls |->
                         IF d = c THEN Writers(c, path) # {}
                         ELSE overlapped[d] \/ (f[d].open /\ f[d].path = path)]

\* One iteration of Upload's loop on a received chunk {fn, data}.
UploadChunk(c, fn, data) ==
    /\ pc[c] = "loop"
    /\ method[c] = "Upload"
    /\ chunks' = chunks + 1
    /\ LET opens == TakesFilename(c, fn)
           name == IF opens THEN sanitizeFilename(fn) ELSE filename[c]
           path == Join(storageDir, name)
           h == IF opens THEN [open |-> TRUE, path |-> path, off |-> 0] ELSE f[c]
       IN  \/ \* no usable filename
              /\ name = <<>>
              /\ impl = "server" \/ ~opens
              /\ NoFault
              /\ Return(c, UploadFailure("name"))
              /\ UNCHANGED <<filename, f, files, dataVars>>
           \/ \* os.OpenFile fails: the path is a directory, or an I/O error
              /\ opens
              /\ name # <<>> \/ impl = "unnamed"
              /\ IF IsEntryOfRoot(path) THEN Fault ELSE NoFault
              /\ Return(c, UploadFailure("create"))
              /\ UNCHANGED <<filename, f, files, dataVars>>
           \/ \* the file is open; the payload, if any, is written
              /\ name # <<>>
              /\ opens => IsEntryOfRoot(path)
              /\ LET n == PathName(path)
                     fs == IF opens THEN OpenTruncate(files, n) ELSE files
                 IN  /\ filename' = [filename EXCEPT ![c] = name]
                     /\ IF opens THEN NoteOpen(c, path)
                        ELSE UNCHANGED <<prevOk, quiet, dlWant, overlapped>>
                     /\ sent' = [sent EXCEPT ![c] = (IF opens THEN <<>> ELSE @) \o data]
                     /\ \/ /\ files' = [fs EXCEPT ![n] = WriteAt(@, h.off, data)]
                           /\ f' = [f EXCEPT ![c] = [h EXCEPT !.off = @ + Len(data)]]
                           /\ NoFault
                           /\ UNCHANGED <<pc, result>>
                        \/ \E k \in 0..(Len(data) - 1) :
                           /\ files' = [fs EXCEPT ![n] = WriteAt(@, h.off, SubSeq(data, 1, k))]
                           /\ f' = [f EXCEPT ![c] = NoHandle]
                           /\ Fault
                           /\ Return(c, UploadFailure("write"))
    /\ UNCHANGED <<impl, semVars, method, ctxDone, emitted, listed, slotVars, sanVars,
                   strayReleases>>

(* ----------------------------- Download ------------------------------- *)

\* Download up to the loop: the name is sanitized and the file opened.
DownloadStart(c, fn) ==
    /\ pc[c] = "handler"
    /\ method[c] = "Download"
    /\ LET name == sanitizeFilename(fn)
           path == Join(storageDir, name)
           missing == IsEntryOfRoot(path) /\ files[PathName(path)] = NoFile
       IN  \/ /\ name = <<>>
              /\ NoFault
              /\ Return(c, "Err:empty")
              /\ UNCHANGED <<filename, f, dlWant, overlapped>>
           \/ \* os.Open fails: no such file
              /\ name # <<>>
              /\ missing
              /\ NoFault
              /\ Return(c, "Err:notfound")
              /\ filename' = [filename EXCEPT ![c] = name]
              /\ UNCHANGED <<f, dlWant, overlapped>>
           \/ \* os.Open fails: an I/O error
              /\ name # <<>>
              /\ ~missing
              /\ Fault
              /\ Return(c, "Err:open")
              /\ filename' = [filename EXCEPT ![c] = name]
              /\ UNCHANGED <<f, dlWant, overlapped>>
           \/ \* os.Open succeeds, on a file or on a directory
              /\ name # <<>>
              /\ ~missing
              /\ NoFault
              /\ filename' = [filename EXCEPT ![c] = name]
              /\ f' = [f EXCEPT ![c] = [open |-> TRUE, path |-> path, off |-> 0]]
              /\ dlWant' = [dlWant EXCEPT ![c] =
                               IF IsEntryOfRoot(path) /\ quiet[PathName(path)]
                               THEN prevOk[PathName(path)] ELSE NoVersion]
              /\ overlapped' = [overlapped EXCEPT ![c] = Writers(c, path) # {}]
              /\ pc' = [pc EXCEPT ![c] = "loop"]
              /\ result' = result
    /\ waitedFull' = [waitedFull EXCEPT ![c] = FALSE]
    /\ UNCHANGED <<impl, semVars, method, ctxDone, emitted, listed, files,
                   slot, ran, releases, sent, prevOk, quiet, sanVars,
                   strayReleases, chunks>>

\* The handler returns r and its deferred f.Close() runs.
ReturnClosing(c, r) ==
    /\ Return(c, r)
    /\ f' = [f EXCEPT ![c] = NoHandle]

\* One iteration of Download's loop: f.Read(buf), then stream.Send of buf[:n].
DownloadStep(c) ==
    /\ pc[c] = "loop"
    /\ method[c] = "Download"
    /\ \/ \* the handle is a directory: the read fails
          /\ ~IsEntryOfRoot(f[c].path)
          /\ NoFault
          /\ ReturnClosing(c, "Err:read")
          /\ emitted' = emitted
       \/ \* the read fails on an I/O error
          /\ IsEntryOfRoot(f[c].path)
          /\ Fault
          /\ ReturnClosing(c, "Err:read")
          /\ emitted' = emitted
       \/ /\ IsEntryOfRoot(f[c].path)
          /\ LET content == files[PathName(f[c].path)]
                 left == Remaining(content, f[c].off)
             IN  \/ \* io.EOF
                    /\ left = 0
                    /\ NoFault
                    /\ ReturnClosing(c, "Ok")
                    /\ emitted' = emitted
                 \/ \E n \in 1..Min(BufSize, left) :
                       \/ /\ emitted' = [emitted EXCEPT ![c] =
                                            Append(@, ReadAt(content, f[c].off, n))]
                          /\ f' = [f EXCEPT ![c].off = @ + n]
                          /\ NoFault
                          /\ UNCHANGED <<pc, result>>
                       \/ /\ Fault
                          /\ ReturnClosing(c, "Err:send")
                          /\ emitted' = emitted
    /\ UNCHANGED <<impl, semVars, method, ctxDone, filename, listed, files,
                   slotVars, dataVars, sanVars, strayReleases, chunks>>

(* ----------------------------- ListFiles ------------------------------ *)

\* The entries ListFiles builds from os.ReadDir: name and size of each file.
Listing(fs) ==
    {<<n, Len(fs[n])>> : n \in {m \in DOMAIN fs : fs[m] # NoFile}}

\* ListFiles: os.MkdirAll (server/handlers.go only), os.ReadDir, the entries.
ListFilesRun(c) ==
    /\ pc[c] = "handler"
    /\ method[c] = "ListFiles"
    /\ \/ /\ Return(c, "Ok")
          /\ NoFault
          /\ listed' = [listed EXCEPT ![c] = Listing(files)]
       \/ /\ impl = "server"
          /\ Fault
          /\ Return(c, "Err:mkdir")
          /\ listed' = listed
       \/ /\ Fault
          /\ Return(c, "Err:readdir")
          /\ listed' = listed
    /\ waitedFull' = [waitedFull EXCEPT ![c] = FALSE]
    /\ UNCHANGED <<impl, semVars, method, ctxDone, filename, f, emitted, files,
                   slot, ran, releases, dataVars, sanVars, strayReleases, chunks>>

(* --------------------------- specification ---------------------------- *)

Init ==
    InitWith(Impls)

Next ==
    \/ \E c \in Calls, m \in Methods : Admit(c, m)
    \/ \E c \in Calls, m \in Methods : Wait(c, m)
    \/ \E c \in Calls, m \in Methods : ArriveDone(c, m)
    \/ \E c \in Calls : Cancel(c)
    \/ \E c \in Calls : AcquireCancelled(c)
    \/ \E c \in Calls : DeferredRelease(c)
    \/ \E c \in Calls : UploadStart(c)
    \/ \E c \in Calls : UploadEOF(c)
    \/ \E c \in Calls : UploadRecvError(c)
    \/ \E c \in Calls, fn \in RawNames, data \in Payloads :
          chunks < MaxChunks /\ UploadChunk(c, fn, data)
    \/ \E c \in Calls, fn \in RawNames : DownloadStart(c, fn)
    \/ \E c \in Calls : DownloadStep(c)
    \/ \E c \in Calls : ListFilesRun(c)

\* Every call of the service, with short uploads.
Spec ==
    Init /\ [][Next]_vars

DataInit ==
    InitWith({"server"})

DataNext ==
    \/ \E c \in Calls, m \in {"Upload", "Download"} : Admit(c, m)
    \/ \E c \in Calls, m \in {"Upload", "Download"} : Wait(c, m)
    \/ \E c \in Calls : DeferredRelease(c)
    \/ \E c \in Calls : UploadStart(c)
    \/ \E c \in Calls : UploadEOF(c)
    \/ \E c \in Calls : UploadRecvError(c)
    \/ \E c \in Calls, fn \in DataNames, data \in DataPayloads :
          chunks < MaxDataChunks /\ UploadChunk(c, fn, data)
    \/ \E c \in Calls, fn \in DataNames : DownloadStart(c, fn)
    \/ \E c \in Calls : DownloadStep(c)

\* Uploads and downloads of one file, with longer uploads and no cancellation.
DataSpec ==
    DataInit /\ [][DataNext]_vars

\* The calls that compete for the transfer semaphore, run to their end without
\* sending a chunk.
LiveNext ==
    \/ \E c \in Calls, m \in {"Upload", "Download"} : Admit(c, m)
    \/ \E c \in Calls, m \in {"Upload", "Download"} : Wait(c, m)
    \/ \E c \in Calls : Cancel(c)
    \/ \E c \in Calls : AcquireCancelled(c)
    \/ \E c \in Calls : DeferredRelease(c)
    \/ \E c \in Calls : UploadStart(c)
    \/ \E c \in Calls : UploadEOF(c)
    \/ \E c \in Calls, fn \in RawNames : DownloadStart(c, fn)
    \/ \E c \in Calls : DownloadStep(c)

\* The steps a call's goroutine takes on its own once the call is admitted or
\* its handler has returned: the handler's first statement, the deferred
\* release.
ServerStep(c) ==
    \/ DeferredRelease(c)
    \/ UploadStart(c)
    \/ \E fn \in RawNames : DownloadStart(c, fn)

\* The scheduler runs every goroutine that can run.
LiveSpec ==
    /\ Init
    /\ [][LiveNext]_vars
    /\ \A c \in Calls : WF_vars(ServerStep(c))

NameNext ==
    \/ \E c \in Calls, m \in Methods : Admit(c, m)
    \/ \E c \in Calls : DeferredRelease(c)
    \/ \E c \in Calls : UploadStart(c)
    \/ \E c \in Calls : UploadEOF(c)
    \/ \E c \in Calls, fn \in NameRawNames, data \in Payloads :
          chunks < MaxChunks /\ UploadChunk(c, fn, data)
    \/ \E c \in Calls, fn \in NameRawNames : DownloadStart(c, fn)
    \/ \E c \in Calls : DownloadStep(c)
    \/ \E c \in Calls : ListFilesRun(c)

\* Every method, with filenames that name two files, the storage directory
\* and its parent; no call waits or is cancelled.
NameSpec ==
    Init /\ [][NameNext]_vars

(* ----------------- the semaphores under arbitrary callers ------------- *)

callerFrame == <<impl, callVars, handlerVars, files, ran, releases, waitedFull,
                 dataVars, sanVars, envVars>>

\* A caller holding no token acquires gate g when the send is ready.
GateAcquire(c, g) ==
    /\ slot[c] = "none"
    /\ \/ /\ g = "transfer"
          /\ acquireUploadDownloadReady(uploadDownloadSem)
          /\ uploadDownloadSem' = Send(uploadDownloadSem)
          /\ listSem' = listSem
       \/ /\ g = "list"
          /\ acquireListReady(listSem)
          /\ listSem' = Send(listSem)
          /\ uploadDownloadSem' = uploadDownloadSem
    /\ slot' = [slot EXCEPT ![c] = g]
    /\ UNCHANGED <<callerFrame, strayReleases>>

\* The release of gate g, called with the semaphores as they are.
GateReleaseCall(g) ==
    \/ /\ g = "transfer"
       /\ uploadDownloadSem' = releaseUploadDownload(uploadDownloadSem)
       /\ listSem' = listSem
    \/ /\ g = "list"
       /\ listSem' = releaseList(listSem)
       /\ uploadDownloadSem' = uploadDownloadSem

\* The holder of a token of gate g releases it.
GateRelease(c, g) ==
    /\ slot[c] = g
    /\ GateReleaseCall(g)
    /\ slot' = [slot EXCEPT ![c] = "none"]
    /\ UNCHANGED <<callerFrame, strayReleases>>

\* A caller that holds no token of gate g (it never acquired one, or has
\* released it already) calls the release of g.
GateStrayRelease(c, g) ==
    /\ slot[c] # g
    /\ strayReleases < MaxStrayReleases
    /\ strayReleases' = strayReleases + 1
    /\ GateReleaseCall(g)
    /\ UNCHANGED <<callerFrame, slot>>

GateNext ==
    \/ \E c \in Calls, g \in {"transfer", "list"} : GateAcquire(c, g)
    \/ \E c \in Calls, g \in {"transfer", "list"} : GateRelease(c, g)
    \/ \E c \in Calls, g \in {"transfer", "list"} : GateStrayRelease(c, g)

\* The four semaphore helpers called in any order by any caller.
GateSpec ==
    InitWith({"server"}) /\ [][GateNext]_vars

(* ------------------------ the sanitizer alone ------------------------- *)

sanFrame == <<impl, semVars, callVars, handlerVars, files, slotVars, dataVars,
              strayReleases, envVars>>

\* A client-supplied filename reaches a handler.
SanReceive(name) ==
    /\ sanPc = "idle"
    /\ rawName' = name
    /\ sanPc' = "input"
    /\ UNCHANGED <<sanFrame, safeName, openPath>>

\* filename = sanitizeFilename(req.GetFilename())
SanSanitize ==
    /\ sanPc = "input"
    /\ safeName' = sanitizeFilename(rawName)
    /\ sanPc' = "sanitized"
    /\ UNCHANGED <<sanFrame, rawName, openPath>>

\* path = filepath.Join(s.storageDir, filename), after the handlers' check
\* that the name is not empty.
SanJoin ==
    /\ sanPc = "sanitized"
    /\ safeName # <<>>
    /\ openPath' = Join(storageDir, safeName)
    /\ sanPc' = "joined"
    /\ UNCHANGED <<sanFrame, rawName, safeName>>

SanNext ==
    \/ \E name \in AllNames : SanReceive(name)
    \/ SanSanitize
    \/ SanJoin

\* sanitizeFilename and the path the handlers open, on every short filename.
SanSpec ==
    InitWith({"server"}) /\ [][SanNext]_vars

(* ------------------------------ claims -------------------------------- *)

\* The calls that were admitted and have not yet run their deferred release.
InFlight ==
    {c \in Calls : pc[c] \in {"handler", "loop", "ret"}}

InFlightTransfer ==
    {c \in InFlight : method[c] \in {"Upload", "Download"}}

InFlightList ==
    {c \in InFlight : method[c] = "ListFiles"}

\* C1: at most UploadDownloadCap Upload/Download calls and at most ListCap
\* ListFiles calls are admitted and not yet returned, in every reachable state.
C1_AdmissionBound ==
    /\ Cardinality(InFlightTransfer) <= UploadDownloadCap
    /\ Cardinality(InFlightList) <= ListCap

\* C1 witness: the transfer pool is full and a further transfer call is blocked.
C1_Witness ==
    /\ Cardinality(InFlightTransfer) = UploadDownloadCap
    /\ \E c \in Calls : pc[c] = "blocked" /\ method[c] \in {"Upload", "Download"}

\* c is blocked first in line on the transfer semaphore.
FirstBlocked(c) ==
    /\ pc[c] = "blocked"
    /\ uploadDownloadSem.sendq # <<>>
    /\ Head(uploadDownloadSem.sendq) = c

\* C2: a transfer call that arrives when the transfer pool is full is admitted
\* only in a step in which a holder releases its slot (its handler does not
\* start while all holders are in flight); and once a holder's handler has
\* returned, the call first in line is admitted and its handler runs, unless
\* its context is done first.
C2_BlockedUntilRelease ==
    /\ [][\A c \in Calls :
            (pc[c] = "blocked" /\ method[c] \in {"Upload", "Download"} /\ pc'[c] = "handler")
            => /\ Cardinality(InFlightTransfer) = UploadDownloadCap
               /\ \E d \in InFlightTransfer : pc[d] = "ret" /\ pc'[d] = "done"]_vars
    /\ \A c \in Calls :
          (FirstBlocked(c) /\ \E d \in InFlightTransfer : pc[d] = "ret")
          ~> (pc[c] \in {"loop", "ret", "done"} \/ ctxDone[c])

\* C2 witness: a call that blocked on the full transfer pool has been admitted.
C2_Witness ==
    \E c \in Calls :
        /\ waitedFull[c]
        /\ pc[c] = "handler"
        /\ method[c] \in {"Upload", "Download"}
        /\ ~ctxDone[c]

\* The callers holding a token of gate g.
Holders(g) ==
    {c \in Calls : slot[c] = g}

\* C3 (as claimed): a release by a caller that holds no token leaves both
\* semaphores unchanged, and at most UploadDownloadCap (ListCap) callers hold
\* a token of the transfer (list) gate.
C3_StrayReleaseHarmless ==
    /\ [][strayReleases' # strayReleases => UNCHANGED semVars]_vars
    /\ [](Cardinality(Holders("transfer")) <= UploadDownloadCap)
    /\ [](Cardinality(Holders("list")) <= ListCap)

\* C4: a call blocked in acquire whose context is done leaves the semaphore at
\* once and returns Canceled; the call holds no token, the tokens in the
\* semaphores are those of the calls in flight, no release runs for it and its
\* handler is never invoked.
C4_CancelledWhileWaiting ==
    /\ [][\A c \in Calls :
            /\ (pc[c] = "blocked" /\ ~ctxDone[c] /\ ctxDone'[c])
               => (pc'[c] = "cancelled" /\ uploadDownloadSem'.n = uploadDownloadSem.n
                   /\ listSem'.n = listSem.n)
            /\ (pc[c] = "cancelled" /\ pc'[c] # "cancelled")
               => (pc'[c] = "done" /\ result'[c] = "Canceled")]_vars
    /\ [](\A c \in Calls :
            (pc[c] = "cancelled" \/ result[c] = "Canceled")
            => /\ ~ran[c]
               /\ releases[c] = 0
               /\ slot[c] = "none"
               /\ \A i \in 1..Len(uploadDownloadSem.sendq) : uploadDownloadSem.sendq[i] # c
               /\ \A i \in 1..Len(listSem.sendq) : listSem.sendq[i] # c)
    /\ [](uploadDownloadSem.n = Cardinality(InFlightTransfer))
    /\ [](listSem.n = Cardinality(InFlightList))

\* C4 witness: a call that blocked on the full transfer pool has returned
\* Canceled while the pool is still full.
C4_Witness ==
    \E c \in Calls :
        /\ result[c] = "Canceled"
        /\ waitedFull[c]
        /\ method[c] \in {"Upload", "Download"}
        /\ uploadDownloadSem.n = UploadDownloadCap

\* C5: a call holds a token exactly from its admission to its deferred release;
\* a call that has ended ran its release once if its handler was invoked and
\* never otherwise; and when no call is in flight both semaphores are empty.
C5_SlotReleasedOnEveryPath ==
    /\ uploadDownloadSem.n = Cardinality(InFlightTransfer)
    /\ listSem.n = Cardinality(InFlightList)
    /\ \A c \in Calls :
          /\ slot[c] # "none" <=> c \in InFlight
          /\ pc[c] = "done" => releases[c] = (IF ran[c] THEN 1 ELSE 0)
          /\ pc[c] = "ret" => ~f[c].open
    /\ InFlight = {} => (uploadDownloadSem.n = 0 /\ listSem.n = 0)

\* C5 witness: every call has ended, each after its handler ran, one of them
\* on an I/O or stream error.
C5_Witness ==
    /\ \A c \in Calls : pc[c] = "done" /\ ran[c]
    /\ faults = MaxFaults
    /\ chunks > 0

\* C6: a call is admitted on arrival exactly when fewer calls of its own class
\* are in flight than its pool holds, whatever the other pool holds; a call
\* only ever blocks on, and holds a token of, the semaphore of its class.
C6_PoolsIndependent ==
    /\ \A c \in Calls :
          Arrives(c) =>
             /\ ENABLED Admit(c, "ListFiles") <=> Cardinality(InFlightList) < ListCap
             /\ ENABLED Admit(c, "Upload") <=> Cardinality(InFlightTransfer) < UploadDownloadCap
             /\ ENABLED Admit(c, "Download") <=> Cardinality(InFlightTransfer) < UploadDownloadCap
    /\ \A i \in 1..Len(uploadDownloadSem.sendq) :
          method[uploadDownloadSem.sendq[i]] \in {"Upload", "Download"}
    /\ \A i \in 1..Len(listSem.sendq) : method[listSem.sendq[i]] = "ListFiles"
    /\ \A c \in InFlight :
          slot[c] = (IF method[c] = "ListFiles" THEN "list" ELSE "transfer")
    /\ uploadDownloadSem.n = Cardinality(InFlightTransfer)
    /\ listSem.n = Cardinality(InFlightList)

\* C6 witness: a ListFiles call is in its handler, admitted after the calls
\* that fill the transfer pool, which are still in flight.
C6_Witness ==
    \E c \in Calls :
        /\ method[c] = "ListFiles"
        /\ pc[c] = "handler"
        /\ Cardinality({d \in InFlightTransfer : d < c}) = UploadDownloadCap

\* A name made of separators only (the empty name is one).
OnlySeparators(name) ==
    \A i \in 1..Len(name) : name[i] = PathSeparator

\* C7 (as claimed): the sanitized name holds no separator, and the path the
\* handlers open names an entry inside the storage directory.
C7_StaysInsideRoot ==
    /\ sanPc \in {"sanitized", "joined"}
       => \A i \in 1..Len(safeName) : safeName[i] # PathSeparator
    /\ sanPc = "joined" => IsEntryOfRoot(openPath)

\* C8 (as claimed): the empty name and the names made of separators only
\* sanitize to the empty string.
C8_EmptyForSeparators ==
    (sanPc \in {"sanitized", "joined"} /\ OnlySeparators(rawName)) => safeName = <<>>

\* C9 (as claimed): a Download that ends cleanly, and that opened its file
\* after an Upload of it ended with success, no Upload having had the file
\* open from that success to the end of the Download, has sent chunks whose
\* concatenation is the bytes of that Upload.
C9_RoundTrip ==
    \A d \in Calls :
        (method[d] = "Download" /\ pc[d] = "ret" /\ result[d] = "Ok" /\ dlWant[d] # NoVersion)
        => Flatten(emitted[d]) = dlWant[d]

\* C10 (as claimed): when an Upload that opened its file ends with success, the
\* file holds the bytes of one single upload: those of this Upload, those of
\* the Upload of the file that ended with success before it, or those sent so
\* far by an Upload that still has the file open.
C10_NoMixture ==
    [][\A u \in Calls :
          (method[u] = "Upload" /\ pc[u] = "loop" /\ f[u].open /\ result'[u] = "OkTrue")
          => LET n == PathName(f[u].path)
             IN  \/ files'[n] = sent[u]
                 \/ prevOk[n] # NoVersion /\ files'[n] = prevOk[n]
                 \/ \E w \in Writers(u, f[u].path) : files'[n] = sent[w]]_vars

\* C11: when an Upload that no other Upload of the same file overlapped ends
\* with success, the file holds exactly the bytes that Upload sent, whatever
\* the file held before: nothing of a longer previous content remains.
C11_ReuploadReplaces ==
    [][\A u \in Calls :
          (method[u] = "Upload" /\ pc[u] = "loop" /\ f[u].open /\ ~overlapped[u]
             /\ result'[u] = "OkTrue")
          => files'[PathName(f[u].path)] = sent[u]]_vars

\* C11 witness: an Upload of two bytes ended with success, and after it an
\* Upload of one byte under the same name, which the file now holds.
C11_Witness ==
    \E u, d \in Calls :
        /\ u # d
        /\ method[d] = "Upload" /\ result[d] = "OkTrue" /\ Len(sent[d]) = 2
        /\ method[u] = "Upload" /\ result[u] = "OkTrue" /\ Len(sent[u]) = 1
        /\ filename[u] = filename[d]
        /\ ~overlapped[u]
        /\ prevOk[filename[u]] = sent[u]
        /\ files[filename[u]] = sent[u]

\* C12 (as claimed): an Upload that fails on an unusable filename, on creating
\* its file or on a write has answered {ok: false} on its stream: it has not
\* returned a transport-level error.
C12_StructuredFailure ==
    \A c \in Calls :
        (method[c] = "Upload" /\ pc[c] = "ret")
        => result[c] \notin {"Err:name", "Err:create", "Err:write"}

\* C13 (as claimed): when an Upload that has no filename yet receives a chunk
\* whose filename is empty or made of separators only, it returns a failure, no
\* file is created or changed, and it holds no open file.
C13_UnusableFilename ==
    [][\A c \in Calls, fn \in NameRawNames, data \in Payloads :
          (OnlySeparators(fn) /\ filename[c] = <<>> /\ UploadChunk(c, fn, data))
          => /\ files' = files
             /\ ~f'[c].open
             /\ pc'[c] = "ret"
             /\ result'[c] \in {"Err:name", "OkFalse:name", "Err:create", "OkFalse:create"}]_vars

\* The storage directory holds no file under the sanitized form of fn.
NotStored(fn) ==
    LET n == sanitizeFilename(fn)
    IN  n \notin DOMAIN files \/ files[n] = NoFile

\* C14 (as claimed): a Download of a name under which no file is stored, with
\* no I/O error raised by the system, returns the not-found error at once: it
\* has sent no chunk, holds no open file, and no file is created or changed.
C14_DownloadNotFound ==
    [][\A c \in Calls, fn \in NameRawNames :
          (NotStored(fn) /\ faults' = faults /\ DownloadStart(c, fn))
          => /\ result'[c] = "Err:notfound"
             /\ pc'[c] = "ret"
             /\ emitted'[c] = <<>>
             /\ ~f'[c].open
             /\ files' = files]_vars

\* C15: an Upload whose stream ends, with no error, before any chunk arrived
\* (it has no filename yet) returns the success response, and no file is
\* created or changed.
C15_EmptyStreamSucceeds ==
    [][\A c \in Calls :
          (method[c] = "Upload" /\ pc[c] = "loop" /\ filename[c] = <<>>
             /\ pc'[c] = "ret" /\ chunks' = chunks /\ faults' = faults)
          => /\ result'[c] = "OkTrue"
             /\ files' = files
             /\ ~f'[c].open]_vars

\* C15 witness: an Upload that received no chunk has returned success while
\* the storage directory holds a file with content.
C15_Witness ==
    \E c \in Calls :
        /\ method[c] = "Upload"
        /\ pc[c] = "ret"
        /\ result[c] = "OkTrue"
        /\ filename[c] = <<>>
        /\ \E n \in FileNames : files[n] = <<1>>

\* C16 (as claimed): an Upload that has opened its file keeps that one file,
\* named by the first filename it took; a later chunk, whatever filename it
\* carries, opens or changes no other file; and the file holds the payloads
\* the session received so far, in arrival order.
C16_FilenameFixedByFirstChunk ==
    /\ [](\A u \in Calls :
            (method[u] = "Upload" /\ f[u].open)
            => /\ f[u].path = Join(storageDir, filename[u])
               /\ files[PathName(f[u].path)] = sent[u])
    /\ [][\A u \in Calls :
            (method[u] = "Upload" /\ f[u].open /\ f'[u].open)
            => (f'[u].path = f[u].path /\ filename'[u] = filename[u])]_vars
    /\ [][\A u \in Calls, fn \in NameRawNames, data \in Payloads :
            (f[u].open /\ UploadChunk(u, fn, data))
            => /\ sent'[u] = sent[u] \o data \/ pc'[u] = "ret"
               /\ \A m \in FileNames \ {PathName(f[u].path)} : files'[m] = files[m]]_vars

\* C17: when an Upload that has opened its file returns a failure (a receive
\* error, a write error), the handler has closed the file; the file still
\* exists, no byte of it before the session's offset has changed and it has
\* not shrunk; no other file has changed; if no other Upload of the file
\* overlapped the session, the file holds the bytes the session wrote, all
\* those of the chunks before the failing one included, and nothing of an
\* earlier content; and the handler, once it has returned, takes no further
\* chunk.
C17_FailureKeepsPartialFile ==
    /\ [][\A c \in Calls :
            (method[c] = "Upload" /\ pc[c] = "loop" /\ pc'[c] = "ret"
               /\ result'[c] # "OkTrue" /\ (f[c].open \/ filename'[c] # filename[c]))
            => LET n == IF f[c].open THEN PathName(f[c].path) ELSE filename'[c]
               IN  /\ ~f'[c].open
                   /\ files'[n] # NoFile
                   /\ \A m \in FileNames \ {n} : files'[m] = files[m]
                   /\ f[c].open =>
                         /\ Len(files'[n]) >= Len(files[n])
                         /\ \A i \in 1..Min(Len(files[n]), f[c].off) :
                               files'[n][i] = files[n][i]
                   /\ ~overlapped'[c] =>
                         /\ Len(files'[n]) >= Len(sent[c])
                         /\ Len(files'[n]) <= Len(sent'[c])
                         /\ files'[n] = SubSeq(sent'[c], 1, Len(files'[n]))]_vars
    /\ [][\A c \in Calls :
            (method[c] = "Upload" /\ pc[c] = "ret")
            => \/ pc'[c] = "done"
               \/ (pc'[c] = "ret" /\ sent'[c] = sent[c] /\ f'[c] = f[c]
                   /\ filename'[c] = filename[c] /\ result'[c] = result[c])]_vars

\* C17 witness: an Upload of two bytes failed on its write after one byte; the
\* file, which held another content from an earlier successful Upload, holds
\* that one byte.
C17_Witness ==
    \E c \in Calls :
        /\ method[c] = "Upload"
        /\ pc[c] = "ret"
        /\ result[c] = "Err:write"
        /\ sent[c] = <<2, 1>>
        /\ ~overlapped[c]
        /\ prevOk[filename[c]] = <<1>>
        /\ files[filename[c]] = <<2>>

\* C18: a Download of a stored file that no Upload has open during the call
\* has sent, at any point, chunks that are each non-empty and no longer than
\* the buffer and whose concatenation is the file up to the handle's offset;
\* when it ends cleanly the concatenation is the whole file (no chunk for an
\* empty file); when it ends on a read or send error that error is returned
\* and the failing step sends no chunk; after the handler has returned no
\* chunk is sent.
C18_DownloadChunks ==
    /\ [](\A d \in Calls :
            (method[d] = "Download" /\ f[d].open /\ ~overlapped[d]
               /\ IsEntryOfRoot(f[d].path))
            => /\ Flatten(emitted[d]) = SubSeq(files[PathName(f[d].path)], 1, f[d].off)
               /\ \A i \in 1..Len(emitted[d]) :
                     Len(emitted[d][i]) >= 1 /\ Len(emitted[d][i]) <= BufSize)
    /\ [][\A d \in Calls :
            (method[d] = "Download" /\ pc[d] = "loop" /\ pc'[d] = "ret"
               /\ ~overlapped[d] /\ IsEntryOfRoot(f[d].path))
            => /\ emitted'[d] = emitted[d]
               /\ result'[d] \in {"Ok", "Err:read", "Err:send"}
               /\ result'[d] = "Ok" <=> faults' = faults
               /\ result'[d] = "Ok" => Flatten(emitted'[d]) = files[PathName(f[d].path)]]_vars
    /\ [][\A d \in Calls :
            (method[d] = "Download" /\ pc[d] = "ret" /\ pc'[d] = "ret")
            => emitted'[d] = emitted[d]]_vars

\* C18 witness: a Download no Upload overlapped has ended cleanly after sending
\* a file in more than one chunk.
C18_Witness ==
    \E d \in Calls :
        /\ method[d] = "Download"
        /\ pc[d] = "ret"
        /\ result[d] = "Ok"
        /\ ~overlapped[d]
        /\ Len(emitted[d]) >= 2
        /\ Flatten(emitted[d]) = files[filename[d]]

\* C19: the step in which the context of an admitted call becomes done changes
\* nothing else: the call stays where it is, keeps its slot and its open file,
\* and no file, chunk or semaphore changes.  A call whose context is done
\* holds its slot as long as it is in flight, leaves its loop only by a
\* return of its handler, with the handler's own result, and gives its slot
\* back only in the deferred release after that return.
C19_CooperativeCancel ==
    /\ [][\A c \in Calls :
            (~ctxDone[c] /\ ctxDone'[c] /\ pc[c] \in {"handler", "loop", "ret"})
            => /\ pc' = pc
               /\ slot' = slot
               /\ f' = f
               /\ files' = files
               /\ emitted' = emitted
               /\ sent' = sent
               /\ result' = result
               /\ UNCHANGED semVars]_vars
    /\ [](\A c \in Calls :
            (ctxDone[c] /\ pc[c] \in {"handler", "loop", "ret"})
            => slot[c] = GateOf(method[c]))
    /\ [][\A c \in Calls :
            (ctxDone[c] /\ pc[c] = "loop" /\ pc'[c] # "loop")
            => /\ pc'[c] = "ret"
               /\ result'[c] \notin {"none", "Canceled"}
               /\ slot'[c] = slot[c]]_vars
    /\ [][\A c \in Calls :
            (ctxDone[c] /\ slot[c] # "none" /\ slot'[c] = "none")
            => (pc[c] = "ret" /\ pc'[c] = "done")]_vars

\* C19 witness: an Upload whose context is done is still in its loop with its
\* file open and its slot held, bytes written.
C19_Witness ==
    \E c \in Calls :
        /\ ctxDone[c]
        /\ method[c] = "Upload"
        /\ pc[c] = "loop"
        /\ f[c].open
        /\ slot[c] = "transfer"
        /\ files[PathName(f[c].path)] = <<1>>

\* C20: a step changes at most one file, and only in an Upload's step on a
\* received chunk, the file being the one that Upload session writes; Download
\* and ListFiles steps change no file; and a file that exists is never
\* removed.
C20_FrameNoDelete ==
    [][/\ \A n \in FileNames : files[n] # NoFile => files'[n] # NoFile
       /\ \A n \in FileNames :
             files'[n] # files[n]
             => /\ \A m \in FileNames \ {n} : files'[m] = files[m]
                /\ chunks' = chunks + 1
                /\ \E u \in Calls :
                      /\ method[u] = "Upload"
                      /\ pc[u] = "loop"
                      /\ filename'[u] = n
                      /\ \A c \in Calls \ {u} :
                            pc'[c] = pc[c] /\ f'[c] = f[c] /\ emitted'[c] = emitted[c]]_vars

\* C20 witness: two files are stored, one with content, and a ListFiles call
\* has returned both after Uploads wrote them.
C20_Witness ==
    \E c \in Calls :
        /\ method[c] = "ListFiles"
        /\ pc[c] = "ret"
        /\ Cardinality(listed[c]) = 2
        /\ \E n \in FileNames : files[n] = <<1>>
        /\ \A n \in FileNames : files[n] # NoFile

====
